---- MODULE Spec2Model ----
(***************************************************************************)
(* A model of rs-json-store (src/src/store.rs): a JsonStore holding a      *)
(* registry of collection configurations (infos), one Tree per collection  *)
(* (sequence high-water mark, data map, changed flag) and the three kinds  *)
(* of files below the store's root directory (infos.json, <name>.seq,      *)
(* <name>.json).  Every public method of JsonStore is one action.          *)
(***************************************************************************)
EXTENDS Integers, Sequences, FiniteSets, TLC

VARIABLES
    infos,      \* JsonStore.infos : collection name -> Info
    trees,      \* JsonStore.trees : collection name -> Tree
    infosFile,  \* <root>/infos.json
    seqFile,    \* <root>/<name>.seq, one per name
    jsonFile,   \* <root>/<name>.json, one per name
    returned,   \* per name: the numbers returned by the successful inserts
                \* into the Tree now registered under that name, in call order
    last,       \* the call that produced this state, and what it returned
    tasks       \* per caller task: the method it is inside, and whether it
                \* holds the guard of the collection's RwLock

vars == <<infos, trees, infosFile, seqFile, jsonFile, returned, last, tasks>>

(***************************************************************************)
(* Bounds                                                                  *)
(***************************************************************************)
MaxSeq == 2     \* inserts are modelled while tree.sequence < MaxSeq

Names == {"users", "logs"}
FieldNames == {"id", "email"}

(***************************************************************************)
(* serde_json::Value.  A scalar is a record [t, n, s]; a document is       *)
(* either an object over FieldNames (a key that is not in the object is    *)
(* Absent) or a scalar value that is not an object.                        *)
(***************************************************************************)
Null == [t |-> "null", n |-> 0, s |-> ""]
Absent == [t |-> "absent", n |-> 0, s |-> ""]
Num(i) == [t |-> "num", n |-> i, s |-> ""]
Str(x) == [t |-> "str", n |-> 0, s |-> x]

Obj(fs) == [k |-> "obj", f |-> fs, v |-> Null]
Scalar(x) == [k |-> "scalar", f |-> [fld \in FieldNames |-> Absent], v |-> x]
NullDoc == Scalar(Null)

\* impl Index<&str> for Value: Null for a missing key and for a non-object
Index(value, field) ==
    IF value.k = "obj" /\ field \in FieldNames /\ value.f[field] # Absent
    THEN value.f[field]
    ELSE Null

\* Value::as_u64: Some(n) only for a non-negative integer; -1 stands for None
as_u64(x) == IF x.t = "num" /\ x.n >= 0 THEN x.n ELSE -1

\* an overwrite that keeps a value the caller supplied
SetFieldKeepsSupplied(value, field, x) ==
    IF value.f[field] \in {Absent, Null} THEN Obj([value.f EXCEPT ![field] = x]) ELSE value

\* Map::insert(field, v) on an object
SetField(value, field, x) == Obj([value.f EXCEPT ![field] = x])

Range(s) == {s[i] : i \in 1..Len(s)}

\* the object built by the `for field in fields` loops of insert and update
Projection(fields, value) == [fld \in Range(fields) |-> Index(value, fld)]

(***************************************************************************)
(* Info and Tree                                                           *)
(***************************************************************************)
Info(sequence_field, unique_fields, capacity) ==
    [sequence_field |-> sequence_field,
     unique_fields |-> unique_fields,
     capacity |-> capacity]

Tree(sequence, data, changed) ==
    [sequence |-> sequence, data |-> data, changed |-> changed]

EmptyMap == <<>>

\* a new collection that is not marked as changed
NewTreeClean == Tree(0, EmptyMap, FALSE)

\* Tree::new(0, HashMap::default(), true)
NewTree == Tree(0, EmptyMap, TRUE)

MapPut(m, key, x) == [i \in DOMAIN m \cup {key} |-> IF i = key THEN x ELSE m[i]]

\* a lookup that never finds the key
contains_keyNever(m, key) == FALSE

\* HashMap::contains_key
contains_key(m, key) == key \in DOMAIN m

\* HashMap::remove
MapRemove(m, key) == [i \in DOMAIN m \ {key} |-> m[i]]

(***************************************************************************)
(* Files.  A file is [exists, text].  The text of a .seq file is the       *)
(* decimal digits of the number; the text of a JSON file is the set of     *)
(* its members, with the keys of a HashMap<u64, _> rendered as decimal     *)
(* strings.  A text that is not valid JSON (an empty file) has valid =     *)
(* FALSE.                                                                  *)
(***************************************************************************)
RECURSIVE ToDigits(_)
\* u64::to_string
ToDigits(n) == IF n < 10 THEN <<n>> ELSE ToDigits(n \div 10) \o <<n % 10>>

RECURSIVE DigitsValue(_)
DigitsValue(ds) ==
    IF ds = <<>> THEN 0
    ELSE 10 * DigitsValue(SubSeq(ds, 1, Len(ds) - 1)) + ds[Len(ds)]

\* str::parse::<u64>: -1 stands for Err (the empty string does not parse)
ParseU64(ds) == IF ds = <<>> THEN -1 ELSE DigitsValue(ds)

NoText == [valid |-> FALSE, entries |-> {}]
JsonText(entries) == [valid |-> TRUE, entries |-> entries]

MissingSeqFile == [exists |-> FALSE, text |-> <<>>]
MissingJsonFile == [exists |-> FALSE, text |-> NoText]

\* serde_json::to_string of a Value: only the keys that are present
EncodeDoc(value) ==
    [k |-> value.k,
     members |-> {<<fld, value.f[fld]>> : fld \in {x \in FieldNames : value.f[x] # Absent}},
     v |-> value.v]

\* serde_json::from_str::<Value>
DecodeDoc(text) ==
    IF text.k = "obj"
    THEN Obj([fld \in FieldNames |->
                IF \E m \in text.members : m[1] = fld
                THEN (CHOOSE m \in text.members : m[1] = fld)[2]
                ELSE Absent])
    ELSE Scalar(text.v)

\* serde_json::to_string of HashMap<u64, Value>
EncodeData(data) ==
    JsonText({<<ToDigits(key), EncodeDoc(data[key])>> : key \in DOMAIN data})

\* serde_json::from_str::<HashMap<u64, Value>>
DecodeData(text) ==
    [key \in {ParseU64(e[1]) : e \in text.entries} |->
        DecodeDoc((CHOOSE e \in text.entries : ParseU64(e[1]) = key)[2])]

\* serde_json::to_string of HashMap<String, Info>
EncodeInfos(m) ==
    JsonText({<<name, [sequence_field |-> m[name].sequence_field,
                       unique_fields |-> m[name].unique_fields,
                       capacity |-> ToDigits(m[name].capacity)]>> : name \in DOMAIN m})

\* serde_json::from_str::<HashMap<String, Info>>
DecodeInfos(text) ==
    [name \in {e[1] : e \in text.entries} |->
        LET e == CHOOSE x \in text.entries : x[1] = name
        IN  Info(e[2].sequence_field, e[2].unique_fields, ParseU64(e[2].capacity))]

\* File identifiers below the root directory
InfosPath == <<"", "infos.json">>
SeqPath(tname) == <<tname, "seq">>
JsonPath(tname) == <<tname, "json">>

\* write_text(file, context): File::create truncates the file, then the text
\* is written.  `bad` is the set of paths on which the file system fails during
\* this call; a failure leaves the old file (create failed) or, with trunc, an
\* empty file (the write after create failed).
WriteText(old, path, text, empty, bad, trunc) ==
    IF path \in bad
    THEN IF trunc THEN [exists |-> TRUE, text |-> empty] ELSE old
    ELSE [exists |-> TRUE, text |-> text]

\* get_sequence: a missing file is 0, a text that does not parse is 0
get_sequence(file) ==
    IF ~file.exists THEN 0
    ELSE IF ParseU64(file.text) < 0 THEN 0 ELSE ParseU64(file.text)

\* put_sequence writes sequence.to_string()
put_sequence(old, path, sequence, bad, trunc) ==
    WriteText(old, path, ToDigits(sequence), <<>>, bad, trunc)

\* a put_json that returns without writing
put_jsonSkips(old, path, text, bad, trunc) == old

\* put_json, for <name>.json and for infos.json
put_json(old, path, text, bad, trunc) ==
    WriteText(old, path, text, NoText, bad, trunc)

\* get_json(..).unwrap_or(HashMap::new()) succeeds unless the text is invalid
JsonReadable(file) == ~file.exists \/ file.text.valid

get_data(file) == IF ~file.exists THEN EmptyMap ELSE DecodeData(file.text)
get_infos(file) == IF ~file.exists THEN EmptyMap ELSE DecodeInfos(file.text)

(***************************************************************************)
(* The record of a call: the method, its arguments, the Result it          *)
(* returned (res is "Ok" or the JsonStoreError variant; ret the u64 of     *)
(* insert, out the document of select) and the paths it wrote.             *)
(***************************************************************************)
Call(op, tname, value, sequence, res, ret, out, wrote) ==
    [op |-> op, tname |-> tname, value |-> value, sequence |-> sequence,
     res |-> res, ret |-> ret, out |-> out, wrote |-> wrote]

(***************************************************************************)
(* insert, after the Info was found and the write lock taken               *)
(***************************************************************************)
\* a uniqueness check that lets a document pass when a field of the group is
\* null in it
CollidesPresentOnly(info, data, value, skip) ==
    \E g \in DOMAIN info.unique_fields :
        \E key \in DOMAIN data \ skip :
            /\ \A fld \in Range(info.unique_fields[g]) : Index(value, fld) # Null
            /\ Projection(info.unique_fields[g], value)
                = Projection(info.unique_fields[g], data[key])

\* the two nested loops over info.unique_fields and tree.data; `skip` is the
\* set of keys the inner loop passes over (`if *key == seq { continue; }`)
Collides(info, data, value, skip) ==
    \E g \in DOMAIN info.unique_fields :
        \E key \in DOMAIN data \ skip :
            Projection(info.unique_fields[g], value)
                = Projection(info.unique_fields[g], data[key])

\* a capacity check that lets one document too many in
AtCapacityOffByOne(info, tree) == Cardinality(DOMAIN tree.data) > info.capacity

\* `tree.data.len() >= info.capacity as usize`
AtCapacity(info, tree) == Cardinality(DOMAIN tree.data) >= info.capacity

\* a sequence taken from the number of stored documents
NextSequenceFromCount(tree) == Cardinality(DOMAIN tree.data) + 1

\* `let seq = tree.sequence + 1;`
NextSequence(tree) == tree.sequence + 1

InsertTree(info, tree, value) ==
    IF AtCapacity(info, tree)
    THEN [res |-> "CapacityExceeded", tree |-> tree, ret |-> 0]
    ELSE IF Collides(info, tree.data, value, {})
    THEN [res |-> "DuplicateUniqueFields", tree |-> tree, ret |-> 0]
    ELSE LET seq == NextSequence(tree)
             bumped == [tree EXCEPT !.sequence = seq]
             stored == SetField(value, info.sequence_field, Num(seq))
             done == [res |-> "Ok",
                      tree |-> Tree(seq, MapPut(tree.data, seq, stored), TRUE),
                      ret |-> seq]
         IN  IF Index(value, info.sequence_field) = Null
             THEN IF value.k # "obj"
                  THEN [res |-> "UnObjectValue", tree |-> bumped, ret |-> 0]
                  ELSE done
             ELSE IF value.k = "obj" /\ value.f[info.sequence_field] # Absent
                  THEN done
                  ELSE [res |-> "UnableToMutValue", tree |-> bumped, ret |-> 0]

(***************************************************************************)
(* update, after the Info was found and the write lock taken               *)
(***************************************************************************)
\* an update that stores the document without the uniqueness loops
UpdateTreeUnchecked(info, tree, value) ==
    LET seq == as_u64(Index(value, info.sequence_field))
    IN  IF seq < 0 \/ seq \notin DOMAIN tree.data
        THEN [res |-> "SequenceNotExist", tree |-> tree]
        ELSE [res |-> "Ok",
              tree |-> Tree(tree.sequence, MapPut(tree.data, seq, value), TRUE)]

\* an update that stores the document under its key whether or not the key
\* exists (`entry(seq).or_insert`)
UpdateTreeUpsert(info, tree, value) ==
    LET seq == as_u64(Index(value, info.sequence_field))
    IN  IF seq < 0
        THEN [res |-> "SequenceNotExist", tree |-> tree]
        ELSE IF Collides(info, tree.data, value, {seq})
        THEN [res |-> "DuplicateUniqueFields", tree |-> tree]
        ELSE [res |-> "Ok",
              tree |-> Tree(tree.sequence, MapPut(tree.data, seq, value), TRUE)]

\* an update whose inner loop does not pass over the document it replaces
UpdateTreeNoSkip(info, tree, value) ==
    LET seq == as_u64(Index(value, info.sequence_field))
    IN  IF seq < 0 \/ seq \notin DOMAIN tree.data
        THEN [res |-> "SequenceNotExist", tree |-> tree]
        ELSE IF Collides(info, tree.data, value, {})
        THEN [res |-> "DuplicateUniqueFields", tree |-> tree]
        ELSE [res |-> "Ok",
              tree |-> Tree(tree.sequence, MapPut(tree.data, seq, value), TRUE)]

UpdateTree(info, tree, value) ==
    LET seq == as_u64(Index(value, info.sequence_field))
    IN  IF seq < 0
        THEN [res |-> "SequenceNotExist", tree |-> tree]
        ELSE IF seq \notin DOMAIN tree.data
        THEN [res |-> "SequenceNotExist", tree |-> tree]
        ELSE IF Collides(info, tree.data, value, {seq})
        THEN [res |-> "DuplicateUniqueFields", tree |-> tree]
        ELSE [res |-> "Ok",
              tree |-> Tree(tree.sequence, MapPut(tree.data, seq, value), TRUE)]

(***************************************************************************)
(* delete, after the write lock was taken                                  *)
(***************************************************************************)
\* a delete that hands the highest number back when its document is removed
DeleteTreeRollback(tree, sequence) ==
    IF sequence \notin DOMAIN tree.data
    THEN [res |-> "SequenceNotExist", tree |-> tree]
    ELSE [res |-> "Ok",
          tree |-> Tree(IF sequence = tree.sequence THEN sequence - 1 ELSE tree.sequence,
                        MapRemove(tree.data, sequence), TRUE)]

\* a delete that sets the flag before it looks for the document
DeleteTreeMarksFirst(tree, sequence) ==
    IF sequence \notin DOMAIN tree.data
    THEN [res |-> "SequenceNotExist", tree |-> [tree EXCEPT !.changed = TRUE]]
    ELSE [res |-> "Ok",
          tree |-> Tree(tree.sequence, MapRemove(tree.data, sequence), TRUE)]

DeleteTree(tree, sequence) ==
    IF sequence \notin DOMAIN tree.data
    THEN [res |-> "SequenceNotExist", tree |-> tree]
    ELSE [res |-> "Ok",
          tree |-> Tree(tree.sequence, MapRemove(tree.data, sequence), TRUE)]

(***************************************************************************)
(* save_tree on the part of the state it can touch:                        *)
(* w = [trees, seqFile, jsonFile]                                          *)
(***************************************************************************)
World(ts, sf, jf) == [trees |-> ts, seqFile |-> sf, jsonFile |-> jf]

\* a save_tree that writes whether or not the collection changed
SaveTreeWorldAlways(w, tname, bad, trunc) ==
    IF tname \notin DOMAIN w.trees
    THEN [w |-> w, res |-> "NotFoundTree", wrote |-> {}]
    ELSE LET tree == w.trees[tname]
             sf == [w.seqFile EXCEPT ![tname] =
                        put_sequence(@, SeqPath(tname), tree.sequence, bad, trunc)]
             jf == [w.jsonFile EXCEPT ![tname] =
                        put_json(@, JsonPath(tname), EncodeData(tree.data), bad, trunc)]
         IN  IF SeqPath(tname) \in bad
             THEN [w |-> World(w.trees, sf, w.jsonFile), res |-> "Io", wrote |-> {}]
             ELSE IF JsonPath(tname) \in bad
             THEN [w |-> World(w.trees, sf, jf), res |-> "Io",
                   wrote |-> {SeqPath(tname)}]
             ELSE [w |-> World([w.trees EXCEPT ![tname].changed = FALSE], sf, jf),
                   res |-> "Ok",
                   wrote |-> {SeqPath(tname), JsonPath(tname)}]

\* a save_tree that clears the flag once the marker is written
SaveTreeWorldClearsEarly(w, tname, bad, trunc) ==
    IF tname \notin DOMAIN w.trees
    THEN [w |-> w, res |-> "NotFoundTree", wrote |-> {}]
    ELSE LET tree == w.trees[tname]
             sf == [w.seqFile EXCEPT ![tname] =
                        put_sequence(@, SeqPath(tname), tree.sequence, bad, trunc)]
             jf == [w.jsonFile EXCEPT ![tname] =
                        put_json(@, JsonPath(tname), EncodeData(tree.data), bad, trunc)]
             cleared == [w.trees EXCEPT ![tname].changed = FALSE]
         IN  IF ~tree.changed
             THEN [w |-> w, res |-> "Ok", wrote |-> {}]
             ELSE IF SeqPath(tname) \in bad
             THEN [w |-> World(w.trees, sf, w.jsonFile), res |-> "Io", wrote |-> {}]
             ELSE IF JsonPath(tname) \in bad
             THEN [w |-> World(cleared, sf, jf), res |-> "Io",
                   wrote |-> {SeqPath(tname)}]
             ELSE [w |-> World(cleared, sf, jf),
                   res |-> "Ok",
                   wrote |-> {SeqPath(tname), JsonPath(tname)}]

SaveTreeWorld(w, tname, bad, trunc) ==
    IF tname \notin DOMAIN w.trees
    THEN [w |-> w, res |-> "NotFoundTree", wrote |-> {}]
    ELSE LET tree == w.trees[tname]
             sf == [w.seqFile EXCEPT ![tname] =
                        put_sequence(@, SeqPath(tname), tree.sequence, bad, trunc)]
             jf == [w.jsonFile EXCEPT ![tname] =
                        put_json(@, JsonPath(tname), EncodeData(tree.data), bad, trunc)]
         IN  IF ~tree.changed
             THEN [w |-> w, res |-> "Ok", wrote |-> {}]
             ELSE IF SeqPath(tname) \in bad
             THEN [w |-> World(w.trees, sf, w.jsonFile), res |-> "Io", wrote |-> {}]
             ELSE IF JsonPath(tname) \in bad
             THEN [w |-> World(w.trees, sf, jf), res |-> "Io",
                   wrote |-> {SeqPath(tname)}]
             ELSE [w |-> World([w.trees EXCEPT ![tname].changed = FALSE], sf, jf),
                   res |-> "Ok",
                   wrote |-> {SeqPath(tname), JsonPath(tname)}]

\* save: `for (key, _) in self.infos.iter() { self.save_tree(key).await? }`,
\* order being the iteration order of the HashMap
RECURSIVE SaveWorld(_, _, _, _, _)
SaveWorld(w, order, bad, trunc, wrote) ==
    IF order = <<>>
    THEN [w |-> w, res |-> "Ok", wrote |-> wrote]
    ELSE LET r == SaveTreeWorld(w, Head(order), bad, trunc)
         IN  IF r.res # "Ok"
             THEN [w |-> r.w, res |-> r.res, wrote |-> wrote \cup r.wrote]
             ELSE SaveWorld(r.w, Tail(order), bad, trunc, wrote \cup r.wrote)

(***************************************************************************)
(* Inputs                                                                  *)
(***************************************************************************)
IdVals == {Absent, Null, Str("x")} \cup {Num(i) : i \in 1..MaxSeq}
EmailVals == {Absent, Null, Str("a")}

\* the documents callers pass: objects over FieldNames, and one value that is
\* not an object
Docs ==
    {Obj([fld \in FieldNames |-> IF fld = "id" THEN i ELSE e]) :
        i \in IdVals, e \in EmailVals}
    \cup {Scalar(Str("x"))}

EmailGroup == [g \in {"email"} |-> <<"email">>]

Capacities == {0, 1, 2}

\* the configurations callers pass to create_tree
InfoChoices ==
    {Info("id", EmailGroup, c) : c \in Capacities}

\* the orders in which a HashMap with key set S can be iterated
\* the tasks that call into one Store
Tasks == {"t1", "t2"}

\* a task that is in no method of the Store
Idle == [op |-> "idle", tname |-> "", held |-> FALSE]

\* a task inside method op on collection tname
Inside(op, tname, held) == [op |-> op, tname |-> tname, held |-> held]

Orders(S) ==
    {o \in [1..Cardinality(S) -> S] : \A i, j \in 1..Cardinality(S) : i # j => o[i] # o[j]}

(***************************************************************************)
(* Init: JsonStore::load on an empty root directory                        *)
(***************************************************************************)
Init ==
    /\ infos = EmptyMap
    /\ trees = EmptyMap
    /\ infosFile = MissingJsonFile
    /\ seqFile = [n \in Names |-> MissingSeqFile]
    /\ jsonFile = [n \in Names |-> MissingJsonFile]
    /\ returned = [n \in Names |-> <<>>]
    /\ last = Call("load", "", NullDoc, 0, "Ok", 0, NullDoc, {})
    /\ tasks = [t \in Tasks |-> Idle]

(***************************************************************************)
(* Actions: one per public method of JsonStore                             *)
(***************************************************************************)
create_tree(tname, info, bad, trunc) ==
    IF contains_key(infos, tname)
    THEN /\ last' = Call("create_tree", tname, NullDoc, 0, "FoundTree", 0, NullDoc, {})
         /\ UNCHANGED <<infos, trees, infosFile, seqFile, jsonFile, returned>>
    ELSE LET infos1 == MapPut(infos, tname, info)
             trees1 == MapPut(trees, tname, NewTree)
             r == SaveTreeWorld(World(trees1, seqFile, jsonFile), tname, bad, trunc)
         IN  /\ infos' = infos1
             /\ infosFile' = put_json(infosFile, InfosPath, EncodeInfos(infos1), bad, trunc)
             /\ returned' = [returned EXCEPT ![tname] = <<>>]
             /\ IF InfosPath \in bad
                THEN /\ trees' = trees1
                     /\ UNCHANGED <<seqFile, jsonFile>>
                     /\ last' = Call("create_tree", tname, NullDoc, 0, "Io", 0, NullDoc, {})
                ELSE /\ trees' = r.w.trees
                     /\ seqFile' = r.w.seqFile
                     /\ jsonFile' = r.w.jsonFile
                     /\ last' = Call("create_tree", tname, NullDoc, 0, r.res, 0, NullDoc,
                                     {InfosPath} \cup r.wrote)

drop_tree(tname, bad, trunc) ==
    IF ~contains_key(infos, tname)
    THEN /\ last' = Call("drop_tree", tname, NullDoc, 0, "NotFoundTree", 0, NullDoc, {})
         /\ UNCHANGED <<infos, trees, infosFile, seqFile, jsonFile, returned>>
    ELSE LET infos1 == MapRemove(infos, tname)
         IN  /\ infos' = infos1
             /\ trees' = MapRemove(trees, tname)
             /\ infosFile' = put_json(infosFile, InfosPath, EncodeInfos(infos1), bad, trunc)
             /\ returned' = [returned EXCEPT ![tname] = <<>>]
             /\ IF InfosPath \in bad
                THEN /\ UNCHANGED <<seqFile, jsonFile>>
                     /\ last' = Call("drop_tree", tname, NullDoc, 0, "Io", 0, NullDoc, {})
                ELSE /\ seqFile' = [seqFile EXCEPT ![tname] =
                            IF SeqPath(tname) \in bad THEN @ ELSE MissingSeqFile]
                     /\ jsonFile' = [jsonFile EXCEPT ![tname] =
                            IF JsonPath(tname) \in bad THEN @ ELSE MissingJsonFile]
                     /\ last' = Call("drop_tree", tname, NullDoc, 0, "Ok", 0, NullDoc,
                                     {InfosPath})

load ==
    LET infos1 == get_infos(infosFile)
    IN  IF /\ JsonReadable(infosFile)
           /\ \A key \in DOMAIN infos1 : JsonReadable(jsonFile[key])
        THEN /\ infos' = infos1
             /\ trees' = [key \in DOMAIN infos1 |->
                            Tree(get_sequence(seqFile[key]), get_data(jsonFile[key]), FALSE)]
             /\ returned' = [n \in Names |-> <<>>]
             /\ last' = Call("load", "", NullDoc, 0, "Ok", 0, NullDoc, {})
             /\ UNCHANGED <<infosFile, seqFile, jsonFile>>
        ELSE /\ last' = Call("load", "", NullDoc, 0, "DeserializeFromStr", 0, NullDoc, {})
             /\ UNCHANGED <<infos, trees, infosFile, seqFile, jsonFile, returned>>

insert(tname, value) ==
    /\ tname \in DOMAIN trees => trees[tname].sequence < MaxSeq
    /\ UNCHANGED <<infos, infosFile, seqFile, jsonFile>>
    /\ IF tname \notin DOMAIN infos \/ tname \notin DOMAIN trees
       THEN /\ last' = Call("insert", tname, value, 0, "NotFoundTree", 0, NullDoc, {})
            /\ UNCHANGED <<trees, returned>>
       ELSE LET r == InsertTree(infos[tname], trees[tname], value)
            IN  /\ trees' = [trees EXCEPT ![tname] = r.tree]
                /\ returned' = IF r.res = "Ok"
                               THEN [returned EXCEPT ![tname] = Append(@, r.ret)]
                               ELSE returned
                /\ last' = Call("insert", tname, value, 0, r.res, r.ret, NullDoc, {})

update(tname, value) ==
    /\ UNCHANGED <<infos, infosFile, seqFile, jsonFile, returned>>
    /\ IF tname \notin DOMAIN infos \/ tname \notin DOMAIN trees
       THEN /\ last' = Call("update", tname, value, 0, "NotFoundTree", 0, NullDoc, {})
            /\ UNCHANGED trees
       ELSE LET r == UpdateTree(infos[tname], trees[tname], value)
            IN  /\ trees' = [trees EXCEPT ![tname] = r.tree]
                /\ last' = Call("update", tname, value, 0, r.res, 0, NullDoc, {})

delete(tname, sequence) ==
    /\ UNCHANGED <<infos, infosFile, seqFile, jsonFile, returned>>
    /\ IF tname \notin DOMAIN trees
       THEN /\ last' = Call("delete", tname, NullDoc, sequence, "NotFoundTree", 0, NullDoc, {})
            /\ UNCHANGED trees
       ELSE LET r == DeleteTree(trees[tname], sequence)
            IN  /\ trees' = [trees EXCEPT ![tname] = r.tree]
                /\ last' = Call("delete", tname, NullDoc, sequence, r.res, 0, NullDoc, {})

\* select::<Value>: the stored document itself is handed back
select(tname, sequence) ==
    /\ UNCHANGED <<infos, trees, infosFile, seqFile, jsonFile, returned>>
    /\ last' = IF tname \notin DOMAIN trees
               THEN Call("select", tname, NullDoc, sequence, "NotFoundTree", 0, NullDoc, {})
               ELSE IF sequence \notin DOMAIN trees[tname].data
               THEN Call("select", tname, NullDoc, sequence, "SequenceNotExist", 0, NullDoc, {})
               ELSE Call("select", tname, NullDoc, sequence, "Ok", 0,
                         trees[tname].data[sequence], {})

save_tree(tname, bad, trunc) ==
    LET r == SaveTreeWorld(World(trees, seqFile, jsonFile), tname, bad, trunc)
    IN  /\ trees' = r.w.trees
        /\ seqFile' = r.w.seqFile
        /\ jsonFile' = r.w.jsonFile
        /\ last' = Call("save_tree", tname, NullDoc, 0, r.res, 0, NullDoc, r.wrote)
        /\ UNCHANGED <<infos, infosFile, returned>>

save(order, bad, trunc) ==
    LET r == SaveWorld(World(trees, seqFile, jsonFile), order, bad, trunc, {})
    IN  /\ trees' = r.w.trees
        /\ seqFile' = r.w.seqFile
        /\ jsonFile' = r.w.jsonFile
        /\ last' = Call("save", "", NullDoc, 0, r.res, 0, NullDoc, r.wrote)
        /\ UNCHANGED <<infos, infosFile, returned>>

(***************************************************************************)
(* Spec: every call is made on a file system whose operations succeed      *)
(***************************************************************************)
\* a fault is <<bad, trunc>>: the paths that fail, and whether a failed write
\* leaves an empty file behind
Faults(bads) == {io \in bads \X BOOLEAN : io[2] => io[1] # {}}

\* the calls a client can make with collection names in `names`, documents
\* in `docs` and Infos in `choices`, on a file system that fails on the paths
\* of some set in `bads`
\* Each call runs from its start to its return with no other call in progress.
CallsOf(names, bads, docs, choices) ==
    \/ \E tname \in names, info \in choices, io \in Faults(bads) :
            create_tree(tname, info, io[1], io[2]) /\ UNCHANGED tasks
    \/ \E tname \in names, io \in Faults(bads) :
            drop_tree(tname, io[1], io[2]) /\ UNCHANGED tasks
    \/ load /\ UNCHANGED tasks
    \/ \E tname \in names, value \in docs : insert(tname, value) /\ UNCHANGED tasks
    \/ \E tname \in names, value \in docs : update(tname, value) /\ UNCHANGED tasks
    \/ \E tname \in names, sequence \in 0..MaxSeq :
            delete(tname, sequence) /\ UNCHANGED tasks
    \/ \E tname \in names, sequence \in 0..MaxSeq :
            select(tname, sequence) /\ UNCHANGED tasks
    \/ \E tname \in names, io \in Faults(bads) :
            save_tree(tname, io[1], io[2]) /\ UNCHANGED tasks
    \/ \E order \in Orders(DOMAIN infos), io \in Faults(bads) :
            save(order, io[1], io[2]) /\ UNCHANGED tasks

Calls(names, bads) == CallsOf(names, bads, Docs, InfoChoices)

Next == Calls({"users"}, {{}})

Spec == Init /\ [][Next]_vars

(***************************************************************************)
(* SpecStore: two collections, on a file system whose operations succeed   *)
(***************************************************************************)
FewDocs == {Obj([id |-> Num(1), email |-> Str("a")])}

OneInfo == {Info("id", EmailGroup, 1)}

StoreNext == CallsOf(Names, {{}}, FewDocs, OneInfo)

SpecStore == Init /\ [][StoreNext]_vars

(***************************************************************************)
(* SpecIO: one collection, on a file system where the creation of a file   *)
(* can fail (the old file stays), a write can fail after the file was      *)
(* created (an empty file stays) and a removal can fail (the file stays)   *)
(***************************************************************************)
FailingPaths(names) ==
    {{}} \cup {{InfosPath}} \cup {{SeqPath(n)} : n \in names}
         \cup {{JsonPath(n)} : n \in names}
         \cup {{SeqPath(n), JsonPath(n)} : n \in names}

IONext == CallsOf({"users"}, FailingPaths({"users"}), FewDocs \cup {Scalar(Str("x"))}, OneInfo)

SpecIO == Init /\ [][IONext]_vars

(***************************************************************************)
(* SpecLock: two tasks call into one Store, two collections.  A call is    *)
(* three steps: the task enters the method (Begin), which takes the        *)
(* receiver the signature declares; it is handed the guard of the          *)
(* collection's RwLock (Acquire); the body runs and the guard is dropped   *)
(* at the return (End...).  The arguments are read when the body runs.     *)
(***************************************************************************)
\* the methods declared with `&mut self`; select, save_tree and save take
\* `&self`
Exclusive(op) == op \in {"create_tree", "drop_tree", "insert", "update", "delete"}

\* a locking discipline in which every method asks for the read guard
LockModeAllRead(op) == "read"

\* _read_lock in select, _write_lock in insert, update, delete and save_tree
LockMode(op) == IF op = "select" THEN "read" ELSE "write"

Busy == {t \in Tasks : tasks[t] # Idle}

\* the borrow of the Store a call needs: no other call at all for `&mut self`,
\* no `&mut self` call for `&self`
CanBorrow(t, op) ==
    /\ tasks[t] = Idle
    /\ IF Exclusive(op)
       THEN Busy = {}
       ELSE \A u \in Busy : ~Exclusive(tasks[u].op)

\* the tasks that hold a guard of tname's RwLock in the given mode
Holders(tname, mode) ==
    {t \in Tasks : tasks[t].tname = tname /\ tasks[t].held /\ LockMode(tasks[t].op) = mode}

\* RwLock::write() is granted when nobody holds a guard, RwLock::read() when
\* nobody holds the write guard
Granted(tname, mode) ==
    IF mode = "write"
    THEN Holders(tname, "write") = {} /\ Holders(tname, "read") = {}
    ELSE Holders(tname, "write") = {}

\* the call reaches _write_lock / _read_lock and finds the collection:
\* insert and update look the name up in infos first
FindsTree(c) ==
    /\ c.op \in {"insert", "update", "delete", "select", "save_tree"}
    /\ c.tname \in DOMAIN trees
    /\ c.op \in {"insert", "update"} => c.tname \in DOMAIN infos

Begin(t, op, tname) ==
    /\ CanBorrow(t, op)
    /\ tasks' = [tasks EXCEPT ![t] = Inside(op, tname, FALSE)]
    /\ UNCHANGED <<infos, trees, infosFile, seqFile, jsonFile, returned, last>>

Acquire(t) ==
    /\ tasks[t] # Idle
    /\ ~tasks[t].held
    /\ FindsTree(tasks[t])
    /\ Granted(tasks[t].tname, LockMode(tasks[t].op))
    /\ tasks' = [tasks EXCEPT ![t].held = TRUE]
    /\ UNCHANGED <<infos, trees, infosFile, seqFile, jsonFile, returned, last>>

\* the body of the method can run: the guard is held, or the method returns
\* NotFoundTree before asking for it; create_tree and drop_tree own the Store
Runs(t, op) ==
    /\ tasks[t].op = op
    /\ FindsTree(tasks[t]) => tasks[t].held

Return(t) == tasks' = [tasks EXCEPT ![t] = Idle]

EndCreateTree(t) ==
    /\ Runs(t, "create_tree")
    /\ \E info \in OneInfo : create_tree(tasks[t].tname, info, {}, FALSE)
    /\ Return(t)

EndDropTree(t) ==
    /\ Runs(t, "drop_tree")
    /\ drop_tree(tasks[t].tname, {}, FALSE)
    /\ Return(t)

EndInsert(t) ==
    /\ Runs(t, "insert")
    /\ \E value \in FewDocs : insert(tasks[t].tname, value)
    /\ Return(t)

EndUpdate(t) ==
    /\ Runs(t, "update")
    /\ \E value \in FewDocs : update(tasks[t].tname, value)
    /\ Return(t)

EndDelete(t) ==
    /\ Runs(t, "delete")
    /\ delete(tasks[t].tname, 1)
    /\ Return(t)

EndSelect(t) ==
    /\ Runs(t, "select")
    /\ select(tasks[t].tname, 1)
    /\ Return(t)

EndSaveTree(t) ==
    /\ Runs(t, "save_tree")
    /\ save_tree(tasks[t].tname, {}, FALSE)
    /\ Return(t)

Methods == {"create_tree", "drop_tree", "insert", "update", "delete", "select", "save_tree"}

LockNext ==
    \/ \E t \in Tasks, op \in Methods, tname \in Names : Begin(t, op, tname)
    \/ \E t \in Tasks : Acquire(t)
    \/ \E t \in Tasks : EndCreateTree(t)
    \/ \E t \in Tasks : EndDropTree(t)
    \/ \E t \in Tasks : EndInsert(t)
    \/ \E t \in Tasks : EndUpdate(t)
    \/ \E t \in Tasks : EndDelete(t)
    \/ \E t \in Tasks : EndSelect(t)
    \/ \E t \in Tasks : EndSaveTree(t)

SpecLock == Init /\ [][LockNext]_vars

(***************************************************************************)
(* Vocabulary of the properties.  These are stated on the documents        *)
(* themselves, not through the operators the actions are built from.       *)
(***************************************************************************)
Registered(n) == n \in DOMAIN infos /\ n \in DOMAIN trees

\* the value a document contributes for a field: null when it has none
FieldOrNull(doc, fld) ==
    IF doc.k = "obj" THEN (IF doc.f[fld] = Absent THEN Null ELSE doc.f[fld]) ELSE Null

SameOnGroup(fields, a, b) ==
    \A i \in 1..Len(fields) : FieldOrNull(a, fields[i]) = FieldOrNull(b, fields[i])

\* doc agrees on some uniqueness group of n with a stored document other than k
CollidesWithOther(n, doc, k) ==
    \E g \in DOMAIN infos[n].unique_fields :
        \E key \in DOMAIN trees[n].data \ {k} :
            SameOnGroup(infos[n].unique_fields[g], doc, trees[n].data[key])

\* the sequence number a document carries for collection n (-1: none)
CarriedSequence(n, doc) ==
    LET x == FieldOrNull(doc, infos[n].sequence_field)
    IN  IF x.t = "num" /\ x.n >= 0 THEN x.n ELSE -1

Count(n) == Cardinality(DOMAIN trees[n].data)

\* the step is a call of method op on a collection registered before the call
CallOn(op, n) == last'.op = op /\ last'.tname = n /\ Registered(n)

(***************************************************************************)
(* C1: the sequence numbers returned by the successful inserts into one    *)
(* collection are strictly increasing in call order, hence pairwise        *)
(* distinct: a number freed by delete is never returned again.             *)
(***************************************************************************)
C1_ReturnedStrictlyIncreasing ==
    \A n \in Names :
        \A i, j \in 1..Len(returned[n]) : i < j => returned[n][i] < returned[n][j]

\* two inserts succeeded, and the number the first one returned has been freed
C1_Witness ==
    \E n \in DOMAIN trees :
        /\ Len(returned[n]) >= 2
        /\ returned[n][1] \notin DOMAIN trees[n].data
        /\ last.op = "insert" /\ last.res = "Ok"

(***************************************************************************)
(* C2: an insert into a registered collection that holds as many           *)
(* documents as its capacity fails with CapacityExceeded and leaves the    *)
(* data map unchanged, whatever the document is.                           *)
(***************************************************************************)
C2_InsertAtCapacityFails ==
    [][\A n \in Names :
        (CallOn("insert", n) /\ Count(n) = infos[n].capacity)
            => (last'.res = "CapacityExceeded" /\ trees'[n].data = trees[n].data)]_vars

\* a full, non-empty collection refused a document that also collides on a
\* uniqueness group
C2_Witness ==
    /\ last.op = "insert" /\ last.res = "CapacityExceeded"
    /\ Registered(last.tname)
    /\ Count(last.tname) > 0
    /\ CollidesWithOther(last.tname, last.value, 0)

(***************************************************************************)
(* C3 as stated: an insert, or an update of document k, whose projection   *)
(* over some uniqueness group equals that of a stored document other than  *)
(* k fails with DuplicateUniqueFields, and sequence, data and dirty flag   *)
(* are as before the call.                                                 *)
(***************************************************************************)
C3_AsStated ==
    [][\A n \in Names :
        /\ (CallOn("insert", n) /\ CollidesWithOther(n, last'.value, 0))
              => (last'.res = "DuplicateUniqueFields" /\ trees'[n] = trees[n])
        /\ (/\ CallOn("update", n)
            /\ CarriedSequence(n, last'.value) \in DOMAIN trees[n].data
            /\ CollidesWithOther(n, last'.value, CarriedSequence(n, last'.value)))
              => (last'.res = "DuplicateUniqueFields" /\ trees'[n] = trees[n])]_vars

(***************************************************************************)
(* C3 as amended: the same for an update, and for an insert into a         *)
(* collection that holds fewer documents than its capacity (a full         *)
(* collection answers CapacityExceeded first); and a successful insert     *)
(* returns the high-water mark of before the call plus one.                *)
(***************************************************************************)
C3_DuplicateRejectedBelowCapacity ==
    [][\A n \in Names :
        /\ (/\ CallOn("insert", n)
            /\ Count(n) < infos[n].capacity
            /\ CollidesWithOther(n, last'.value, 0))
              => (last'.res = "DuplicateUniqueFields" /\ trees'[n] = trees[n])
        /\ (/\ CallOn("update", n)
            /\ CarriedSequence(n, last'.value) \in DOMAIN trees[n].data
            /\ CollidesWithOther(n, last'.value, CarriedSequence(n, last'.value)))
              => (last'.res = "DuplicateUniqueFields" /\ trees'[n] = trees[n])
        /\ (CallOn("insert", n) /\ last'.res = "Ok")
              => last'.ret = trees[n].sequence + 1]_vars

\* a duplicate was refused by a collection that had room for it, the
\* candidate colliding through a missing field with a stored null
C3_Witness ==
    /\ last.op = "insert" /\ last.res = "DuplicateUniqueFields"
    /\ Registered(last.tname)
    /\ Count(last.tname) < infos[last.tname].capacity
    /\ last.value.k = "obj" /\ last.value.f["email"] = Absent

(***************************************************************************)
(* C4: every failed insert or update leaves the collection's sequence      *)
(* high-water mark, data map and dirty flag as they were before the call.  *)
(***************************************************************************)
C4_FailedCallChangesNothing ==
    [][\A n \in Names :
        ((CallOn("insert", n) \/ CallOn("update", n)) /\ last'.res # "Ok")
            => trees'[n] = trees[n]]_vars

(***************************************************************************)
(* C5: a successful save() followed by load() of the same root yields the  *)
(* same collection names, the same Info, the same sequence high-water      *)
(* mark and the same documents per collection.                             *)
(***************************************************************************)
C5_SaveLoadRoundTrip ==
    [][(/\ last.op = "save" /\ last.res = "Ok"
        /\ last'.op = "load" /\ last'.res = "Ok")
            => /\ infos' = infos
               /\ DOMAIN trees' = DOMAIN trees
               /\ \A n \in DOMAIN trees :
                    /\ trees'[n].sequence = trees[n].sequence
                    /\ trees'[n].data = trees[n].data]_vars

(***************************************************************************)
(* C6: save_tree on a collection whose dirty flag is false writes no       *)
(* file; on a dirty collection a successful save_tree writes the sequence  *)
(* marker and the data file with the current state and clears the flag;    *)
(* and the flag of a clean collection is set again only by a successful    *)
(* insert, update or delete on it.                                         *)
(***************************************************************************)
C6_SaveTreeWritesOncePerChange ==
    [][\A n \in Names :
        /\ (CallOn("save_tree", n) /\ ~trees[n].changed)
              => /\ last'.res = "Ok"
                 /\ last'.wrote = {}
                 /\ seqFile' = seqFile /\ jsonFile' = jsonFile
                 /\ trees' = trees
        /\ (CallOn("save_tree", n) /\ trees[n].changed /\ last'.res = "Ok")
              => /\ last'.wrote = {SeqPath(n), JsonPath(n)}
                 /\ seqFile'[n].exists /\ jsonFile'[n].exists
                 /\ get_sequence(seqFile'[n]) = trees[n].sequence
                 /\ get_data(jsonFile'[n]) = trees[n].data
                 /\ trees'[n] = [trees[n] EXCEPT !.changed = FALSE]
        /\ (/\ Registered(n) /\ ~trees[n].changed
            /\ n \in DOMAIN trees' /\ trees'[n].changed)
              => /\ last'.op \in {"insert", "update", "delete"}
                 /\ last'.tname = n
                 /\ last'.res = "Ok"]_vars

\* a save_tree has just written both files of a collection that holds a
\* document
C6_Witness ==
    /\ last.op = "save_tree" /\ last.res = "Ok"
    /\ Registered(last.tname)
    /\ last.wrote = {SeqPath(last.tname), JsonPath(last.tname)}
    /\ Count(last.tname) > 0
    /\ ~trees[last.tname].changed

(***************************************************************************)
(* C7: in every reachable state, for every uniqueness group of a           *)
(* collection no two stored documents agree on all fields of the group,    *)
(* a missing field counting as null.                                       *)
(***************************************************************************)
C7_UniqueGroupsHold ==
    \A n \in Names :
        Registered(n) =>
            \A g \in DOMAIN infos[n].unique_fields :
                \A k1, k2 \in DOMAIN trees[n].data :
                    k1 # k2 =>
                        ~SameOnGroup(infos[n].unique_fields[g],
                                     trees[n].data[k1], trees[n].data[k2])

\* two documents are stored under a one-field group, one of them without the
\* field, and the last call was a successful update
C7_Witness ==
    /\ last.op = "update" /\ last.res = "Ok"
    /\ Registered(last.tname)
    /\ Count(last.tname) = 2
    /\ infos[last.tname].unique_fields = EmailGroup
    /\ \E k \in DOMAIN trees[last.tname].data :
            FieldOrNull(trees[last.tname].data[k], "email") = Null

(***************************************************************************)
(* C8: in every reachable state a collection holds at most `capacity`      *)
(* documents.                                                              *)
(***************************************************************************)
C8_WithinCapacity ==
    \A n \in Names : Registered(n) => Count(n) <= infos[n].capacity

\* a collection filled to its capacity, saved and loaded again
C8_Witness ==
    /\ last.op = "load" /\ last.res = "Ok"
    /\ \E n \in Names :
            Registered(n) /\ infos[n].capacity > 0 /\ Count(n) = infos[n].capacity

(***************************************************************************)
(* C9: every key of a collection's data map is at most its sequence        *)
(* high-water mark, and no insert, update, delete, select or save_tree on  *)
(* an existing collection lowers the high-water mark.                      *)
(***************************************************************************)
C9_KeysBelowSequence ==
    \A n \in DOMAIN trees :
        \A k \in DOMAIN trees[n].data : k <= trees[n].sequence

C9_SequenceNotLowered ==
    \A n \in DOMAIN trees :
        (last'.op \in {"insert", "update", "delete", "select", "save_tree"}
            /\ n \in DOMAIN trees')
            => trees'[n].sequence >= trees[n].sequence

C9_KeysBelowMonotoneSequence ==
    [](C9_KeysBelowSequence) /\ [][C9_SequenceNotLowered]_vars

\* the document with the highest number has just been deleted, leaving the
\* high-water mark above every key
C9_Witness ==
    /\ last.op = "delete" /\ last.res = "Ok"
    /\ Registered(last.tname)
    /\ last.sequence = trees[last.tname].sequence
    /\ Count(last.tname) > 0

(***************************************************************************)
(* C10: update, delete and select with a sequence number under which the   *)
(* collection holds no document (for update also a sequence field that is  *)
(* absent or not a non-negative integer) fail with SequenceNotExist and    *)
(* leave sequence, data and dirty flag unchanged.                          *)
(***************************************************************************)
C10_UnknownSequenceRejected ==
    [][\A n \in Names :
        /\ (/\ CallOn("update", n)
            /\ CarriedSequence(n, last'.value) \notin DOMAIN trees[n].data)
              => (last'.res = "SequenceNotExist" /\ trees'[n] = trees[n])
        /\ (/\ (CallOn("delete", n) \/ CallOn("select", n))
            /\ last'.sequence \notin DOMAIN trees[n].data)
              => (last'.res = "SequenceNotExist" /\ trees'[n] = trees[n])]_vars

\* an update was refused that carries a number insert once returned and
\* delete has freed
C10_Witness ==
    /\ last.op = "update" /\ last.res = "SequenceNotExist"
    /\ Registered(last.tname)
    /\ \E i \in 1..Len(returned[last.tname]) :
            returned[last.tname][i] = CarriedSequence(last.tname, last.value)
    /\ CarriedSequence(last.tname, last.value) \notin DOMAIN trees[last.tname].data

(***************************************************************************)
(* C16: after a successful insert returning s the document stored under s  *)
(* has its sequence field equal to s, whatever the caller supplied there;  *)
(* and in every reachable state each stored document's sequence field      *)
(* equals the key it is stored under.                                      *)
(***************************************************************************)
C16_StoredUnderOwnNumber ==
    \A n \in Names :
        Registered(n) =>
            \A k \in DOMAIN trees[n].data :
                /\ trees[n].data[k].k = "obj"
                /\ trees[n].data[k].f[infos[n].sequence_field] = Num(k)

C16_InsertOverwritesField ==
    \A n \in Names :
        (CallOn("insert", n) /\ last'.res = "Ok")
            => /\ last'.ret \in DOMAIN trees'[n].data
               /\ trees'[n].data[last'.ret].f[infos[n].sequence_field] = Num(last'.ret)
               /\ \A fld \in FieldNames \ {infos[n].sequence_field} :
                    trees'[n].data[last'.ret].f[fld] = last'.value.f[fld]

C16_SequenceFieldIsKey ==
    [](C16_StoredUnderOwnNumber) /\ [][C16_InsertOverwritesField]_vars

\* an insert succeeded whose document carried a number other than the one it
\* was given
C16_Witness ==
    /\ last.op = "insert" /\ last.res = "Ok"
    /\ last.value.f["id"].t = "num" /\ last.value.f["id"].n # last.ret
    /\ Registered(last.tname)
    /\ last.ret \in DOMAIN trees[last.tname].data

(***************************************************************************)
(* C17: an update of an existing document k that leaves k's values on      *)
(* every uniqueness group unchanged succeeds; a successful update          *)
(* replaces the whole document at key k, sets the dirty flag and leaves    *)
(* the sequence high-water mark, the key set and every other document      *)
(* unchanged.                                                              *)
(***************************************************************************)
C17_UpdateReplacesOneDocument ==
    [][\A n \in Names :
        LET k == CarriedSequence(n, last'.value)
        IN  /\ (/\ CallOn("update", n)
                /\ k \in DOMAIN trees[n].data
                /\ \A g \in DOMAIN infos[n].unique_fields :
                        SameOnGroup(infos[n].unique_fields[g], last'.value, trees[n].data[k]))
                  => last'.res = "Ok"
            /\ (CallOn("update", n) /\ last'.res = "Ok")
                  => /\ k \in DOMAIN trees[n].data
                     /\ DOMAIN trees'[n].data = DOMAIN trees[n].data
                     /\ trees'[n].data[k] = last'.value
                     /\ \A j \in DOMAIN trees[n].data \ {k} :
                            trees'[n].data[j] = trees[n].data[j]
                     /\ trees'[n].sequence = trees[n].sequence
                     /\ trees'[n].changed]_vars

\* a document was replaced by an update in a collection that holds two
\* documents
C17_Witness ==
    /\ last.op = "update" /\ last.res = "Ok"
    /\ Registered(last.tname)
    /\ Count(last.tname) = 2
    /\ trees[last.tname].changed
    /\ FieldOrNull(last.value, "email") = Str("a")

(***************************************************************************)
(* C20: in every reachable state a registered collection whose dirty flag  *)
(* is false has in-memory sequence and data equal to the contents of its   *)
(* sequence marker and data file.                                          *)
(***************************************************************************)
C20_CleanMatchesDisk ==
    \A n \in Names :
        (Registered(n) /\ ~trees[n].changed)
            => /\ get_sequence(seqFile[n]) = trees[n].sequence
               /\ get_data(jsonFile[n]) = trees[n].data

(***************************************************************************)
(* C11: create_tree with a registered name fails with FoundTree and        *)
(* drop_tree with an unregistered name fails with NotFoundTree; either     *)
(* way the registry, every collection's in-memory state and every file     *)
(* are left as they were.                                                  *)
(***************************************************************************)
C11_RegistryCallsRefused ==
    [][\A n \in Names :
        /\ (last'.op = "create_tree" /\ last'.tname = n /\ n \in DOMAIN infos)
              => /\ last'.res = "FoundTree"
                 /\ UNCHANGED <<infos, trees, infosFile, seqFile, jsonFile>>
        /\ (last'.op = "drop_tree" /\ last'.tname = n /\ n \notin DOMAIN infos)
              => /\ last'.res = "NotFoundTree"
                 /\ UNCHANGED <<infos, trees, infosFile, seqFile, jsonFile>>]_vars

\* create_tree was refused on a collection that holds an unsaved document
C11_Witness ==
    /\ last.op = "create_tree" /\ last.res = "FoundTree"
    /\ Registered(last.tname)
    /\ Count(last.tname) = 1
    /\ trees[last.tname].changed

(***************************************************************************)
(* C15: after every create_tree or drop_tree that returns Ok the registry  *)
(* file holds exactly the names and Infos of the in-memory registry, and   *)
(* after create_tree the new collection's marker (0) and empty data file   *)
(* are on disk, so that a load made next yields exactly the registered     *)
(* collections; and after every create_tree or drop_tree, successful or    *)
(* not, infos and trees have the same key set.                             *)
(***************************************************************************)
C15_RegistryOnDisk ==
    [][/\ last'.op \in {"create_tree", "drop_tree"}
          => /\ DOMAIN infos' = DOMAIN trees'
             /\ last'.res = "Ok"
                  => /\ infosFile'.exists /\ infosFile'.text.valid
                     /\ DecodeInfos(infosFile'.text) = infos'
             /\ (last'.op = "create_tree" /\ last'.res = "Ok")
                  => /\ seqFile'[last'.tname] = [exists |-> TRUE, text |-> <<0>>]
                     /\ jsonFile'[last'.tname] = [exists |-> TRUE, text |-> JsonText({})]
       /\ (/\ last.op \in {"create_tree", "drop_tree"} /\ last.res = "Ok"
           /\ last'.op = "load")
          => /\ last'.res = "Ok"
             /\ infos' = infos
             /\ DOMAIN trees' = DOMAIN infos]_vars

\* a second collection was created next to one that is registered
C15_Witness ==
    /\ last.op = "create_tree" /\ last.res = "Ok"
    /\ DOMAIN infos = Names
    /\ DOMAIN DecodeInfos(infosFile.text) = Names

(***************************************************************************)
(* C18: after a successful drop_tree(name) the name is in neither the      *)
(* registry nor the collection map; insert, update, delete, select and     *)
(* save_tree on an unregistered name fail with NotFoundTree; and a         *)
(* create_tree(name) followed by load yields an empty collection with      *)
(* sequence 0, whatever the directory held under that name before.         *)
(***************************************************************************)
C18_DroppedIsGone ==
    [][/\ (last'.op = "drop_tree" /\ last'.res = "Ok")
          => /\ last'.tname \notin DOMAIN infos'
             /\ last'.tname \notin DOMAIN trees'
       /\ (/\ last'.op \in {"insert", "update", "delete", "select", "save_tree"}
           /\ last'.tname \notin DOMAIN infos)
          => /\ last'.res = "NotFoundTree"
             /\ UNCHANGED <<infos, trees, infosFile, seqFile, jsonFile>>
       /\ (last.op = "create_tree" /\ last.res = "Ok" /\ last'.op = "load")
          => /\ last'.res = "Ok"
             /\ last.tname \in DOMAIN infos'
             /\ trees'[last.tname] = Tree(0, EmptyMap, FALSE)]_vars

\* drop_tree returned Ok and the collection's files, with a document in them,
\* are still in the directory
C18_Witness ==
    /\ last.op = "drop_tree" /\ last.res = "Ok"
    /\ last.tname \notin DOMAIN infos
    /\ jsonFile[last.tname].exists
    /\ jsonFile[last.tname].text.entries # {}
    /\ get_sequence(seqFile[last.tname]) > 0

(***************************************************************************)
(* C12: the dirty flag is true after every successful insert, update or    *)
(* delete; within one Store it goes from true to false only in a           *)
(* save_tree (called directly, or by save) that wrote the marker and the   *)
(* data file of the collection; when one of the two writes fails the flag  *)
(* stays true and the next save_tree that succeeds writes both files.      *)
(***************************************************************************)
C12_DirtyFlag ==
    [][\A n \in Names :
        /\ (\E op \in {"insert", "update", "delete"} : CallOn(op, n) /\ last'.res = "Ok")
              => trees'[n].changed
        /\ (/\ Registered(n) /\ trees[n].changed
            /\ last'.op # "load"
            /\ n \in DOMAIN trees' /\ ~trees'[n].changed)
              => /\ last'.op \in {"save_tree", "save"}
                 /\ last'.res = "Ok"
                 /\ {SeqPath(n), JsonPath(n)} \subseteq last'.wrote
                 /\ seqFile'[n] = [exists |-> TRUE, text |-> ToDigits(trees[n].sequence)]
                 /\ jsonFile'[n] = [exists |-> TRUE, text |-> EncodeData(trees[n].data)]
        /\ (CallOn("save_tree", n) /\ trees[n].changed /\ last'.res # "Ok")
              => /\ trees'[n] = trees[n]
                 /\ ~({SeqPath(n), JsonPath(n)} \subseteq last'.wrote)
        /\ (/\ last.op = "save_tree" /\ last.tname = n /\ last.res = "Io"
            /\ CallOn("save_tree", n) /\ last'.res = "Ok")
              => {SeqPath(n), JsonPath(n)} \subseteq last'.wrote]_vars

\* a save_tree wrote the marker, failed on the data file and left the
\* collection dirty
C12_Witness ==
    /\ last.op = "save_tree" /\ last.res = "Io"
    /\ last.wrote = {SeqPath(last.tname)}
    /\ Registered(last.tname)
    /\ trees[last.tname].changed
    /\ Count(last.tname) = 1

(***************************************************************************)
(* C19: whenever a save_tree has stopped between its two writes (the       *)
(* marker is written, the data file is not), the marker on disk is at      *)
(* least every key in the data file on disk, so that a load of that        *)
(* directory has every key at or below the sequence and the next insert    *)
(* overwrites no loaded document.                                          *)
(***************************************************************************)
C19_MarkerCoversDataFile ==
    \A n \in Names :
        (/\ last.res = "Io"
         /\ SeqPath(n) \in last.wrote
         /\ JsonPath(n) \notin last.wrote
         /\ JsonReadable(jsonFile[n]))
            => \A key \in DOMAIN get_data(jsonFile[n]) :
                    key <= get_sequence(seqFile[n])

(***************************************************************************)
(* C13: on one collection no two of insert, update, delete and save_tree   *)
(* are inside their locked section at the same time, and no select is      *)
(* inside its locked section while one of them is; two selects can be.     *)
(***************************************************************************)
C13_WritersExcludeAll ==
    \A t \in Tasks : \A u \in Tasks \ {t} :
        (/\ tasks[t].held /\ tasks[u].held
         /\ tasks[t].tname = tasks[u].tname)
            => tasks[t].op = "select" /\ tasks[u].op = "select"

\* two selects hold the read guard of the same collection
C13_Witness ==
    /\ tasks["t1"] = Inside("select", "users", TRUE)
    /\ tasks["t2"] = Inside("select", "users", TRUE)

(***************************************************************************)
(* C14: while an insert, update, delete or save_tree holds the write lock  *)
(* of collection A, an insert, update or delete on another registered      *)
(* collection B of the same Store can start (and then complete) without    *)
(* waiting for the operation on A.                                         *)
(***************************************************************************)
C14_OtherCollectionCanStart ==
    \A t \in Tasks : \A u \in Tasks \ {t}, b \in Names :
        (/\ tasks[t].op \in {"insert", "update", "delete", "save_tree"}
         /\ tasks[t].held
         /\ tasks[u] = Idle
         /\ b # tasks[t].tname
         /\ Registered(b))
            => \A op \in {"insert", "update", "delete"} : ENABLED Begin(u, op, b)

====
